---- MODULE Spec2Model ----
(***************************************************************************)
(* A model of gnina-torch's checkpoint loader (src/gnina/gnina.py) and of  *)
(* its training driver (src/gnina/training.py).                            *)
(*                                                                         *)
(* Strings are sequences of one-character strings, so that Python's        *)
(* substring test (`x in key`), str.replace and f-string concatenation are *)
(* computed character by character, as the interpreter computes them.      *)
(***************************************************************************)
EXTENDS Integers, Sequences, FiniteSets, TLC

VARIABLES
    r_pc,       \* _rename harness: "off", "start", "once", "twice"
    r_key,      \* the key handed to _rename
    r_out,      \* outcome of _rename(r_key)
    r_out2,     \* outcome of _rename(_rename(r_key)), when the first returned
    l_pc,       \* load_gnina_model: "off", "call", "select", "load", "install",
                \*   "loaded", "returned", "raised"
    l_path,     \* directory of the gnina package (os.path.dirname(__file__))
    l_name,     \* gnina_model, the model name asked for
    l_file,     \* weights_file, the path handed to _load_gnina_model_file
    l_ckpt,     \* the keys of the mapping stored in the weights file, in order;
                \*   the tensor stored under the i-th key is tensor i
    l_model,    \* the model constructed by _load_gnina_model_file
    l_renamed,  \* weights_renamed, the OrderedDict _load_weights builds
    l_i,        \* position of the next item of weights.items() to rename
    l_error,    \* the exception that ended the call, "" for none
    l_result,   \* the model returned to the caller
    l_grid,     \* dimension and resolution handed to load_gnina_model, and the
                \*   num_voxels it computes from them (0 before it has)
    t_pc,       \* training(): "off", "Idle", "LoadersReady", "EpochBoundary",
                \*   "Running", "EpochCompleted", "EvaluatingTrain",
                \*   "EvaluatingTest", "Completed", "Failed"
    t_args,     \* the parsed command line
    t_data,     \* what the data sources report: dims and batches per pass
    t_model,    \* the model: constructed or not, and its parameter version
    t_optimizer, \* the optimizer: constructed or not, and the steps it took
    t_handlers, \* handlers registered on the trainer's EPOCH_COMPLETED, in order
    t_epoch,    \* trainer.state.epoch
    t_iteration, \* trainer.state.iteration
    t_batch,    \* batches of the current epoch already trained on
    t_loss,     \* trainer.state.output, the loss of the last training step
    t_queue,    \* handlers of the current EPOCH_COMPLETED event still to run
    t_eval,     \* the evaluator: split, batches done, metric accumulator
    t_log,      \* the reports printed by _log_print, in order
    t_saved,    \* Checkpoint._saved: the checkpoints on storage, oldest first
    t_written,  \* every checkpoint ever written, in order
    t_removed,  \* every checkpoint ever removed from storage, in order
    t_error,    \* the exception that ended training(), "" for none
    o_pc,       \* _output_transform_ROC harness: "off", "start", "done"
    o_affinity, \* the affinity flag the metrics were set up with
    o_output,   \* the evaluator's output for one batch
    o_result    \* what _output_transform_ROC returned for it

r_vars == <<r_pc, r_key, r_out, r_out2>>

l_vars ==
    <<l_pc, l_path, l_name, l_file, l_ckpt, l_model, l_renamed, l_i, l_error, l_result,
      l_grid>>

t_vars ==
    <<t_pc, t_args, t_data, t_model, t_optimizer, t_handlers, t_epoch, t_iteration,
      t_batch, t_loss, t_queue, t_eval, t_log, t_saved, t_written, t_removed, t_error>>

o_vars == <<o_pc, o_affinity, o_output, o_result>>

vars == <<r_vars, l_vars, t_vars, o_vars>>

(***************************************************************************)
(* String literals of src/gnina/gnina.py.                                  *)
(***************************************************************************)
S_dot == <<".">>
S_conv == <<"c", "o", "n", "v">>
S_features == <<"f", "e", "a", "t", "u", "r", "e", "s">>
S_output_fc == <<"o", "u", "t", "p", "u", "t", "_", "f", "c">>
S_aff == <<"_", "a", "f", "f">>
S_pose == <<"p", "o", "s", "e">>
S_affinity == <<"a", "f", "f", "i", "n", "i", "t", "y">>
S_output == <<"_", "o", "u", "t", "p", "u", "t">>
S_w == <<"w">>
S_fc1 == <<"f", "c", "1">>

S_slash == <<"/">>
S_weights == <<"w", "e", "i", "g", "h", "t", "s">>
S_pt == <<".", "p", "t">>
S_gnina == <<"g", "n", "i", "n", "a">>
S_default2017 == <<"d", "e", "f", "a", "u", "l", "t", "2", "0", "1", "7">>
S_default2018 == <<"d", "e", "f", "a", "u", "l", "t", "2", "0", "1", "8">>
S_dense == <<"d", "e", "n", "s", "e">>
S_crossdock == <<"c", "r", "o", "s", "s", "d", "o", "c", "k", "_">>
S_custom == <<"c", "u", "s", "t", "o", "m">>

S_output_fc_aff == S_output_fc \o S_aff
S_pose_output == S_pose \o S_output
S_affinity_output == S_affinity \o S_output

(***************************************************************************)
(* Bounds.                                                                 *)
(***************************************************************************)
\* A key handed to _rename is a concatenation of at most MaxFrags fragments.
MaxFrags == 3
\* A weights file holds at most MaxCkptKeys parameter keys.
MaxCkptKeys == 4
\* --iterations is at most MaxIterations.
MaxIterations == 3
\* --test_every and --checkpoint_every are at most MaxEvery.
MaxEvery == 2
\* --num_checkpoints is at most MaxKeep.
MaxKeep == 2
\* A pass over a data source delivers at most MaxBatches batches.
MaxBatches == 2
\* A batch handed to a metric holds at most MaxSamples samples.
MaxSamples == 2
\* Log-probabilities are the integers -MaxNegLog..0, read as base-2 logarithms.
MaxNegLog == 2

(***************************************************************************)
(* Python string primitives.                                               *)
(***************************************************************************)
\* `pat in s`
Contains(s, pat) ==
    \E i \in 0..(Len(s) - Len(pat)) : SubSeq(s, i + 1, i + Len(pat)) = pat

\* s.replace(old, new): every non-overlapping occurrence, scanned left to right
RECURSIVE Replace(_, _, _)
Replace(s, old, new) ==
    IF Len(s) < Len(old) THEN s
    ELSE IF SubSeq(s, 1, Len(old)) = old
         THEN new \o Replace(SubSeq(s, Len(old) + 1, Len(s)), old, new)
         ELSE <<s[1]>> \o Replace(Tail(s), old, new)

\* A call's outcome: a returned value, or a raised exception.
Return(v) == [raised |-> "", value |-> v]
Raise(e) == [raised |-> e, value |-> <<>>]
None == [raised |-> "", value |-> <<"None">>]

(***************************************************************************)
(* _rename (gnina.py:11-53).                                               *)
(***************************************************************************)
\* Mutant of _rename: the current-generation rules pass an already-prefixed key
\* through unchanged.
_rename_passthrough(key) ==
    IF Contains(key, S_conv) THEN Return(S_features \o S_dot \o key)
    ELSE IF Contains(key, S_output_fc \o S_dot)
    THEN Return(Replace(key, S_output_fc, S_pose \o S_dot \o S_pose_output))
    ELSE IF Contains(key, S_output_fc_aff \o S_dot)
    THEN Return(Replace(key, S_output_fc_aff, S_affinity \o S_dot \o S_affinity_output))
    ELSE IF Contains(key, S_pose_output)
    THEN IF Contains(key, S_pose \o S_dot \o S_pose_output)
         THEN Return(key) ELSE Return(S_pose \o S_dot \o key)
    ELSE IF Contains(key, S_affinity_output)
    THEN IF Contains(key, S_affinity \o S_dot \o S_affinity_output)
         THEN Return(key) ELSE Return(S_affinity \o S_dot \o key)
    ELSE Raise("RuntimeError: Unknown layer name")

\* Mutant of _rename: the head rules are tried before the "conv" rule.
_rename_heads_first(key) ==
    IF Contains(key, S_output_fc \o S_dot)
    THEN Return(Replace(key, S_output_fc, S_pose \o S_dot \o S_pose_output))
    ELSE IF Contains(key, S_output_fc_aff \o S_dot)
    THEN Return(Replace(key, S_output_fc_aff, S_affinity \o S_dot \o S_affinity_output))
    ELSE IF Contains(key, S_pose_output) THEN Return(S_pose \o S_dot \o key)
    ELSE IF Contains(key, S_affinity_output) THEN Return(S_affinity \o S_dot \o key)
    ELSE IF Contains(key, S_conv) THEN Return(S_features \o S_dot \o key)
    ELSE Raise("RuntimeError: Unknown layer name")

_rename(key) ==
    IF Contains(key, S_conv) THEN Return(S_features \o S_dot \o key)
    ELSE IF Contains(key, S_output_fc \o S_dot)
    THEN Return(Replace(key, S_output_fc, S_pose \o S_dot \o S_pose_output))
    ELSE IF Contains(key, S_output_fc_aff \o S_dot)
    THEN Return(Replace(key, S_output_fc_aff, S_affinity \o S_dot \o S_affinity_output))
    ELSE IF Contains(key, S_pose_output) THEN Return(S_pose \o S_dot \o key)
    ELSE IF Contains(key, S_affinity_output) THEN Return(S_affinity \o S_dot \o key)
    ELSE Raise("RuntimeError: Unknown layer name")

(***************************************************************************)
(* The keys _rename is applied to.                                         *)
(***************************************************************************)
Frags ==
    { S_conv, S_output_fc, S_aff, S_dot \o S_w, S_pose_output, S_affinity_output,
      S_pose \o S_dot, S_affinity \o S_dot, S_fc1 }

RECURSIVE Concat(_)
Concat(ss) == IF ss = <<>> THEN <<>> ELSE Head(ss) \o Concat(Tail(ss))

Keys == { Concat(fs) : fs \in UNION { [1..n -> Frags] : n \in 1..MaxFrags } }

(***************************************************************************)
(* _rename applied once, and applied again to its own result.              *)
(***************************************************************************)
RenameOff == r_pc = "off" /\ r_key = <<>> /\ r_out = None /\ r_out2 = None

RenameStart ==
    /\ r_pc = "start"
    /\ r_key \in Keys
    /\ r_out = None
    /\ r_out2 = None

CallRename ==
    /\ r_pc = "start"
    /\ r_out' = _rename(r_key)
    /\ r_pc' = "once"
    /\ UNCHANGED <<r_key, r_out2, l_vars, t_vars, o_vars>>

CallRenameAgain ==
    /\ r_pc = "once"
    /\ r_out.raised = ""
    /\ r_out2' = _rename(r_out.value)
    /\ r_pc' = "twice"
    /\ UNCHANGED <<r_key, r_out, l_vars, t_vars, o_vars>>

NextRename == CallRename \/ CallRenameAgain

(***************************************************************************)
(* load_gnina_model, _load_gnina_model_file, _load_weights                 *)
(* (gnina.py:56-141).                                                      *)
(***************************************************************************)
\* os.path.join(path, "weights", f"{gnina_model}.pt")  (gnina.py:135-136)
WeightsFile(path, gnina_model) ==
    path \o S_slash \o S_weights \o S_slash \o gnina_model \o S_pt

NoModel == [class |-> "", channels |-> 0, state |-> <<>>]

\* Mutant of ModelFor: default2017 builds the pose-only Default2017 class.
ModelForPoseOnly2017(weights_file) ==
    IF Contains(weights_file, S_default2017)
    THEN Return([class |-> "Default2017", channels |-> 35, state |-> <<>>])
    ELSE IF Contains(weights_file, S_default2018)
    THEN Return([class |-> "Default2018Affinity", channels |-> 28, state |-> <<>>])
    ELSE IF Contains(weights_file, S_dense) THEN Raise("NotImplementedError")
    ELSE Raise("ValueError: Unknown model name")

\* The model class chosen from the file's path (gnina.py:98-115).
ModelFor(weights_file) ==
    IF Contains(weights_file, S_default2017)
    THEN Return([class |-> "Default2017Affinity", channels |-> 35, state |-> <<>>])
    ELSE IF Contains(weights_file, S_default2018)
    THEN Return([class |-> "Default2018Affinity", channels |-> 28, state |-> <<>>])
    ELSE IF Contains(weights_file, S_dense) THEN Raise("NotImplementedError")
    ELSE Raise("ValueError: Unknown model name")

\* What model(batch) returns: gnina() unpacks `log_pose, affinity = model(batch)`
\* (gnina.py:225), and "all GNINA default models perform both pose prediction
\* and binding affinity prediction" (gnina.py:95-96).
ForwardArity(model) ==
    IF model.class \in {"Default2017Affinity", "Default2018Affinity"} THEN 2 ELSE 1

\* OrderedDict item assignment: a key already present keeps its position and
\* takes the new value.
OrderedDictSet(d, k, v) ==
    IF \E j \in 1..Len(d) : d[j].key = k
    THEN [j \in 1..Len(d) |-> IF d[j].key = k THEN [key |-> k, value |-> v] ELSE d[j]]
    ELSE Append(d, [key |-> k, value |-> v])

\* Mutant of RenameItem: a key no rule knows is dropped and loading goes on.
RenameItemSkipUnknown(renamed, key, value) ==
    LET r == _rename(key) IN
    IF r.raised # "" THEN Return(renamed)
    ELSE Return(OrderedDictSet(renamed, r.value, value))

\* One item of the generator ((_rename(key), value) for key, value in
\* weights.items()) consumed by OrderedDict (gnina.py:73-75).
RenameItem(renamed, key, value) ==
    LET r == _rename(key) IN
    IF r.raised # "" THEN Raise(r.raised)
    ELSE Return(OrderedDictSet(renamed, r.value, value))

\* Where the package may be installed, and the model names asked for.
Paths ==
    { S_slash \o S_gnina,
      S_slash \o S_default2017 \o S_slash \o S_gnina,
      S_slash \o S_dense \o S_slash \o S_gnina }

ModelNames == { S_default2017, S_crossdock \o S_default2018, S_dense, S_custom }

\* The keys a weights file may hold: a dict, so no key twice.
CkptKeys ==
    { S_conv \o S_dot \o S_w,
      S_output_fc \o S_dot \o S_w,
      S_output_fc_aff \o S_dot \o S_w,
      S_pose_output \o S_dot \o S_w,
      S_affinity_output \o S_dot \o S_w,
      S_fc1 \o S_dot \o S_w }

Checkpoints ==
    { c \in UNION { [1..n -> CkptKeys] : n \in 0..MaxCkptKeys } :
        \A i, j \in 1..Len(c) : i # j => c[i] # c[j] }

\* round(x) of a non-negative x = n / d: the nearest integer, a tie going to
\* the even one (Python 3).
PyRound(x) ==
    LET q == x[1] \div x[2]
        r == x[1] % x[2]
    IN  IF 2 * r < x[2] THEN q
        ELSE IF 2 * r > x[2] THEN q + 1
        ELSE IF q % 2 = 0 THEN q ELSE q + 1

\* num_voxels = round(dimension / resolution) + 1  (gnina.py:138)
NumVoxels(dimension, resolution) ==
    PyRound(<<dimension[1] * resolution[2], dimension[2] * resolution[1]>>) + 1

\* input_dims=(channels, num_voxels, num_voxels, num_voxels) (gnina.py:103, 109)
InputDims(model, num_voxels) ==
    <<model.channels, num_voxels, num_voxels, num_voxels>>

\* Grid sizes and spacings in angstrom, as fractions <<n, d>> that a float
\* holds exactly; 23.5 and 0.5 are the defaults (gnina.py:127-128).
Dimensions == { <<47, 2>>, <<24, 1>> }

Resolutions == { <<1, 2>>, <<1, 1>> }

NoGrid == [dimension |-> <<0, 1>>, resolution |-> <<1, 1>>, num_voxels |-> 0]

LoadOff ==
    /\ l_pc = "off"
    /\ l_grid = NoGrid
    /\ l_path = <<>>
    /\ l_name = <<>>
    /\ l_file = <<>>
    /\ l_ckpt = <<>>
    /\ l_model = NoModel
    /\ l_renamed = <<>>
    /\ l_i = 0
    /\ l_error = ""
    /\ l_result = NoModel

LoadStart ==
    /\ l_pc = "call"
    /\ \E dimension \in Dimensions, resolution \in Resolutions :
          l_grid = [dimension |-> dimension, resolution |-> resolution, num_voxels |-> 0]
    /\ l_path \in Paths
    /\ l_name \in ModelNames
    /\ l_file = <<>>
    /\ l_ckpt \in Checkpoints
    /\ l_model = NoModel
    /\ l_renamed = <<>>
    /\ l_i = 0
    /\ l_error = ""
    /\ l_result = NoModel

\* load_gnina_model up to its call of _load_gnina_model_file (gnina.py:135-141)
load_gnina_model ==
    /\ l_pc = "call"
    /\ l_file' = WeightsFile(l_path, l_name)
    /\ l_grid' = [l_grid EXCEPT !.num_voxels = NumVoxels(l_grid.dimension, l_grid.resolution)]
    /\ l_pc' = "select"
    /\ UNCHANGED <<l_path, l_name, l_ckpt, l_model, l_renamed, l_i, l_error, l_result, r_vars, t_vars, o_vars>>

\* _load_gnina_model_file: the model is constructed, or the call raises
\* (gnina.py:98-115); then torch.load reads the mapping (gnina.py:70).
ConstructModel ==
    /\ l_pc = "select"
    /\ LET m == ModelFor(l_file) IN
       IF m.raised # ""
       THEN /\ l_error' = m.raised
            /\ l_pc' = "raised"
            /\ UNCHANGED <<l_model, l_i>>
       ELSE /\ l_model' = m.value
            /\ l_i' = 1
            /\ l_pc' = "load"
            /\ UNCHANGED l_error
    /\ UNCHANGED <<l_grid, l_path, l_name, l_file, l_ckpt, l_renamed, l_result, r_vars, t_vars, o_vars>>

\* _load_weights: the next item is renamed and stored, or _rename raises
\* (gnina.py:73-75)
RenameNextItem ==
    /\ l_pc = "load"
    /\ l_i <= Len(l_ckpt)
    /\ LET r == RenameItem(l_renamed, l_ckpt[l_i], l_i) IN
       IF r.raised # ""
       THEN /\ l_error' = r.raised
            /\ l_pc' = "raised"
            /\ UNCHANGED <<l_renamed, l_i>>
       ELSE /\ l_renamed' = r.value
            /\ l_i' = l_i + 1
            /\ UNCHANGED <<l_error, l_pc>>
    /\ UNCHANGED <<l_grid, l_path, l_name, l_file, l_ckpt, l_model, l_result, r_vars, t_vars, o_vars>>

\* _load_weights returns weights_renamed (gnina.py:77)
LoadWeightsReturn ==
    /\ l_pc = "load"
    /\ l_i > Len(l_ckpt)
    /\ l_pc' = "install"
    /\ UNCHANGED <<l_grid, l_path, l_name, l_file, l_ckpt, l_model, l_renamed, l_i, l_error, l_result, r_vars, t_vars, o_vars>>

\* model.load_state_dict(weights) (gnina.py:119). The parameter names of the
\* model classes are defined outside this module: the call installs the
\* mapping, or raises for a mapping the model does not accept.
LoadStateDict ==
    /\ l_pc = "install"
    /\ \E accepted \in BOOLEAN :
          IF accepted
          THEN /\ l_model' = [l_model EXCEPT !.state = l_renamed]
               /\ l_pc' = "loaded"
               /\ UNCHANGED l_error
          ELSE /\ l_error' = "RuntimeError: load_state_dict"
               /\ l_pc' = "raised"
               /\ UNCHANGED l_model
    /\ UNCHANGED <<l_grid, l_path, l_name, l_file, l_ckpt, l_renamed, l_i, l_result, r_vars, t_vars, o_vars>>

\* return model (gnina.py:121, 141)
ReturnModel ==
    /\ l_pc = "loaded"
    /\ l_result' = l_model
    /\ l_pc' = "returned"
    /\ UNCHANGED <<l_grid, l_path, l_name, l_file, l_ckpt, l_model, l_renamed, l_i, l_error, r_vars, t_vars, o_vars>>

NextLoad ==
    \/ load_gnina_model
    \/ ConstructModel
    \/ RenameNextItem
    \/ LoadWeightsReturn
    \/ LoadStateDict
    \/ ReturnModel


(***************************************************************************)
(* training (training.py:590-716) and the ignite engine it drives.         *)
(***************************************************************************)
\* The grid shapes a data source may report, and the losses a step may return.
Dims == {"dims28", "dims32"}
Losses == {"low", "high"}

Args ==
    [ iterations : 1..MaxIterations,
      test_every : 1..MaxEvery,
      checkpoint_every : 1..MaxEvery,
      num_checkpoints : 1..MaxKeep,
      testfile : BOOLEAN,
      affinity : BOOLEAN ]

\* train_loader / test_loader: dims and the number of batches of one pass.
DataSources(testfile) ==
    IF testfile
    THEN [ train_dims : Dims, test_dims : Dims,
           train_batches : 1..MaxBatches, test_batches : 1..MaxBatches ]
    ELSE [ train_dims : Dims, test_dims : {"none"},
           train_batches : 1..MaxBatches, test_batches : {0} ]

NoObject == [constructed |-> FALSE, version |-> 0]
NoEval == [split |-> "", batches |-> 0, seen |-> <<>>]

\* Mutant of DimsAccepted: the dims are not compared.
DimsAcceptedUnchecked(args, data) == TRUE

\* assert test_loader.dims == train_loader.dims, made only when a test file is
\* given (training.py:638-649)
DimsAccepted(args, data) == args.testfile => data.test_dims = data.train_dims

\* Mutant of EveryFires: the handler runs at the first epoch and every n after.
EveryFiresFromFirst(every, epoch) == (epoch - 1) % every = 0

\* Events.EPOCH_COMPLETED(every=n): the handler runs at the epochs n divides.
EveryFires(every, epoch) == epoch % every = 0

\* Mutant of RegisteredHandlers: the checkpoint handler is registered first.
RegisteredHandlersCheckpointFirst(args) ==
    <<[name |-> "checkpoint", every |-> args.checkpoint_every]>>
    \o <<[name |-> "log_training_results", every |-> args.test_every]>>
    \o (IF args.testfile
        THEN <<[name |-> "log_test_results", every |-> args.test_every]>>
        ELSE <<>>)

\* The handlers registered on the trainer, in the order of registration
\* (training.py:669, 684, 705).
RegisteredHandlers(args) ==
    <<[name |-> "log_training_results", every |-> args.test_every]>>
    \o (IF args.testfile
        THEN <<[name |-> "log_test_results", every |-> args.test_every]>>
        ELSE <<>>)
    \o <<[name |-> "checkpoint", every |-> args.checkpoint_every]>>

RECURSIVE DueHandlers(_, _)
DueHandlers(handlers, epoch) ==
    IF handlers = <<>> THEN <<>>
    ELSE (IF EveryFires(Head(handlers).every, epoch)
          THEN <<Head(handlers).name>> ELSE <<>>)
         \o DueHandlers(Tail(handlers), epoch)

\* Mutant of CheckpointKept: the newest kept checkpoint makes room, not the oldest.
CheckpointKeptNewestDropped(saved, n_saved, item) ==
    IF Len(saved) < n_saved THEN Append(saved, item)
    ELSE Append(SubSeq(saved, 1, Len(saved) - 1), item)

\* Checkpoint(n_saved=N): the new checkpoint joins _saved; when N are already
\* kept the oldest is removed from storage (training.py:699-704).
CheckpointKept(saved, n_saved, item) ==
    IF Len(saved) < n_saved THEN Append(saved, item)
    ELSE Append(Tail(saved), item)

CheckpointRemoved(saved, n_saved) ==
    IF Len(saved) < n_saved THEN <<>> ELSE <<Head(saved)>>

\* Mutant of MoreEpochs: training stops early once the loss is low.
MoreEpochsUntilLowLoss(epoch, iterations, loss) == epoch < iterations /\ loss # "low"

\* Whether the trainer starts another epoch (trainer.run(max_epochs=iterations)).
MoreEpochs(epoch, iterations, loss) == epoch < iterations

TrainOff ==
    /\ t_pc = "off"
    /\ t_args = <<>>
    /\ t_data = <<>>
    /\ t_model = NoObject
    /\ t_optimizer = NoObject
    /\ t_handlers = <<>>
    /\ t_epoch = 0
    /\ t_iteration = 0
    /\ t_batch = 0
    /\ t_loss = "none"
    /\ t_queue = <<>>
    /\ t_eval = NoEval
    /\ t_log = <<>>
    /\ t_saved = <<>>
    /\ t_written = <<>>
    /\ t_removed = <<>>
    /\ t_error = ""

TrainStart ==
    /\ t_pc = "Idle"
    /\ t_args \in Args
    /\ t_data \in DataSources(t_args.testfile)
    /\ t_model = NoObject
    /\ t_optimizer = NoObject
    /\ t_handlers = <<>>
    /\ t_epoch = 0
    /\ t_iteration = 0
    /\ t_batch = 0
    /\ t_loss = "none"
    /\ t_queue = <<>>
    /\ t_eval = NoEval
    /\ t_log = <<>>
    /\ t_saved = <<>>
    /\ t_written = <<>>
    /\ t_removed = <<>>
    /\ t_error = ""

\* training.py:620-649: example providers, grid maker, loaders, dims check
SetupLoaders ==
    /\ t_pc = "Idle"
    /\ IF DimsAccepted(t_args, t_data)
       THEN t_pc' = "LoadersReady" /\ UNCHANGED t_error
       ELSE t_pc' = "Failed" /\ t_error' = "AssertionError"
    /\ UNCHANGED <<t_args, t_data, t_model, t_optimizer, t_handlers, t_epoch,
                   t_iteration, t_batch, t_loss, t_queue, t_eval, t_log, t_saved,
                   t_written, t_removed, r_vars, l_vars, o_vars>>

\* training.py:651-713: model, optimizer, trainer, metrics, evaluator, the
\* handlers, and the call of trainer.run
SetupModel ==
    /\ t_pc = "LoadersReady"
    /\ t_model' = [constructed |-> TRUE, version |-> 0]
    /\ t_optimizer' = [constructed |-> TRUE, version |-> 0]
    /\ t_handlers' = RegisteredHandlers(t_args)
    /\ t_pc' = "EpochBoundary"
    /\ UNCHANGED <<t_args, t_data, t_epoch, t_iteration, t_batch, t_loss, t_queue,
                   t_eval, t_log, t_saved, t_written, t_removed, t_error,
                   r_vars, l_vars, o_vars>>

\* The trainer starts the next epoch.
EpochStarted ==
    /\ t_pc = "EpochBoundary"
    /\ MoreEpochs(t_epoch, t_args.iterations, t_loss)
    /\ t_epoch' = t_epoch + 1
    /\ t_batch' = 0
    /\ t_pc' = "Running"
    /\ UNCHANGED <<t_args, t_data, t_model, t_optimizer, t_handlers, t_iteration,
                   t_loss, t_queue, t_eval, t_log, t_saved, t_written, t_removed,
                   t_error, r_vars, l_vars, o_vars>>

\* One training step: forward, loss, backward, optimizer.step(); the loss is
\* returned (training.py:241-256, 296).
TrainStep ==
    /\ t_pc = "Running"
    /\ t_batch < t_data.train_batches
    /\ t_batch' = t_batch + 1
    /\ t_iteration' = t_iteration + 1
    /\ t_model' = [t_model EXCEPT !.version = @ + 1]
    /\ t_optimizer' = [t_optimizer EXCEPT !.version = @ + 1]
    /\ t_loss' \in Losses
    /\ UNCHANGED <<t_pc, t_args, t_data, t_handlers, t_epoch, t_queue, t_eval,
                   t_log, t_saved, t_written, t_removed, t_error, r_vars, l_vars, o_vars>>

\* The data of the epoch is exhausted: EPOCH_COMPLETED fires, and the handlers
\* whose interval divides the epoch are due, in registration order.
EpochCompleted ==
    /\ t_pc = "Running"
    /\ t_batch = t_data.train_batches
    /\ t_queue' = DueHandlers(t_handlers, t_epoch)
    /\ t_pc' = "EpochCompleted"
    /\ UNCHANGED <<t_args, t_data, t_model, t_optimizer, t_handlers, t_epoch,
                   t_iteration, t_batch, t_loss, t_eval, t_log, t_saved, t_written,
                   t_removed, t_error, r_vars, l_vars, o_vars>>

\* Mutant of EvaluationStarted: the metrics keep what the last pass accumulated.
EvaluationStartedNoReset ==
    /\ t_pc = "EpochCompleted"
    /\ t_queue # <<>>
    /\ Head(t_queue) \in {"log_training_results", "log_test_results"}
    /\ LET split == IF Head(t_queue) = "log_training_results" THEN "Train" ELSE "Test" IN
       /\ t_eval' = [split |-> split, batches |-> 0, seen |-> t_eval.seen]
       /\ t_pc' = IF split = "Train" THEN "EvaluatingTrain" ELSE "EvaluatingTest"
    /\ UNCHANGED <<t_args, t_data, t_model, t_optimizer, t_handlers, t_epoch,
                   t_iteration, t_batch, t_loss, t_queue, t_log, t_saved, t_written,
                   t_removed, t_error, r_vars, l_vars, o_vars>>

\* log_training_results / log_test_results: evaluator.run(loader) starts, and
\* the attached metrics are reset (training.py:671, 686, 379-380).
EvaluationStarted ==
    /\ t_pc = "EpochCompleted"
    /\ t_queue # <<>>
    /\ Head(t_queue) \in {"log_training_results", "log_test_results"}
    /\ LET split == IF Head(t_queue) = "log_training_results" THEN "Train" ELSE "Test" IN
       /\ t_eval' = [split |-> split, batches |-> 0, seen |-> <<>>]
       /\ t_pc' = IF split = "Train" THEN "EvaluatingTrain" ELSE "EvaluatingTest"
    /\ UNCHANGED <<t_args, t_data, t_model, t_optimizer, t_handlers, t_epoch,
                   t_iteration, t_batch, t_loss, t_queue, t_log, t_saved, t_written,
                   t_removed, t_error, r_vars, l_vars, o_vars>>

EvalBatches == IF t_eval.split = "Train" THEN t_data.train_batches ELSE t_data.test_batches

\* Mutant of EvaluationStep: the step also takes an optimizer step.
EvaluationStepUpdating ==
    /\ t_pc \in {"EvaluatingTrain", "EvaluatingTest"}
    /\ t_eval.batches < EvalBatches
    /\ t_eval' = [t_eval EXCEPT
                    !.batches = @ + 1,
                    !.seen = Append(@, [split |-> t_eval.split,
                                        batch |-> t_eval.batches + 1,
                                        version |-> t_model.version])]
    /\ t_model' = [t_model EXCEPT !.version = @ + 1]
    /\ t_optimizer' = [t_optimizer EXCEPT !.version = @ + 1]
    /\ UNCHANGED <<t_pc, t_args, t_data, t_handlers, t_epoch,
                   t_iteration, t_batch, t_loss, t_queue, t_log, t_saved, t_written,
                   t_removed, t_error, r_vars, l_vars, o_vars>>

\* One evaluation step: the model is run on a batch without gradients, and the
\* metrics are updated with its output (training.py:327-339, 383).
EvaluationStep ==
    /\ t_pc \in {"EvaluatingTrain", "EvaluatingTest"}
    /\ t_eval.batches < EvalBatches
    /\ t_eval' = [t_eval EXCEPT
                    !.batches = @ + 1,
                    !.seen = Append(@, [split |-> t_eval.split,
                                        batch |-> t_eval.batches + 1,
                                        version |-> t_model.version])]
    /\ UNCHANGED <<t_pc, t_args, t_data, t_model, t_optimizer, t_handlers, t_epoch,
                   t_iteration, t_batch, t_loss, t_queue, t_log, t_saved, t_written,
                   t_removed, t_error, r_vars, l_vars, o_vars>>

\* evaluator.run returns, the metrics are computed and _log_print prints the
\* report (training.py:673-680, 688-695, 552-579).
LogResults ==
    /\ t_pc \in {"EvaluatingTrain", "EvaluatingTest"}
    /\ t_eval.batches = EvalBatches
    /\ t_log' = Append(t_log, [ title |-> t_eval.split,
                                epoch |-> t_epoch,
                                iteration |-> t_iteration,
                                metrics |-> t_eval.seen,
                                affinity |-> t_args.affinity ])
    /\ t_queue' = Tail(t_queue)
    /\ t_pc' = "EpochCompleted"
    /\ UNCHANGED <<t_args, t_data, t_model, t_optimizer, t_handlers, t_epoch,
                   t_iteration, t_batch, t_loss, t_eval, t_saved, t_written,
                   t_removed, t_error, r_vars, l_vars, o_vars>>

\* The Checkpoint handler: model and optimizer are written under the tag
\* trainer.state.epoch (training.py:698-707).
CheckpointHandler ==
    /\ t_pc = "EpochCompleted"
    /\ t_queue # <<>>
    /\ Head(t_queue) = "checkpoint"
    /\ LET item == [ tag |-> t_epoch, model |-> t_model.version,
                     optimizer |-> t_optimizer.version ] IN
       /\ t_saved' = CheckpointKept(t_saved, t_args.num_checkpoints, item)
       /\ t_removed' = t_removed \o CheckpointRemoved(t_saved, t_args.num_checkpoints)
       /\ t_written' = Append(t_written, item)
    /\ t_queue' = Tail(t_queue)
    /\ UNCHANGED <<t_pc, t_args, t_data, t_model, t_optimizer, t_handlers, t_epoch,
                   t_iteration, t_batch, t_loss, t_eval, t_log, t_error,
                   r_vars, l_vars, o_vars>>

\* Every due handler has run: the event is over.
HandlersDone ==
    /\ t_pc = "EpochCompleted"
    /\ t_queue = <<>>
    /\ t_pc' = "EpochBoundary"
    /\ UNCHANGED <<t_args, t_data, t_model, t_optimizer, t_handlers, t_epoch,
                   t_iteration, t_batch, t_loss, t_queue, t_eval, t_log, t_saved,
                   t_written, t_removed, t_error, r_vars, l_vars, o_vars>>

\* trainer.run returns after max_epochs epochs; the log file is closed
\* (training.py:713-716).
RunCompleted ==
    /\ t_pc = "EpochBoundary"
    /\ ~MoreEpochs(t_epoch, t_args.iterations, t_loss)
    /\ t_pc' = "Completed"
    /\ UNCHANGED <<t_args, t_data, t_model, t_optimizer, t_handlers, t_epoch,
                   t_iteration, t_batch, t_loss, t_queue, t_eval, t_log, t_saved,
                   t_written, t_removed, t_error, r_vars, l_vars, o_vars>>

NextTrain ==
    \/ SetupLoaders
    \/ SetupModel
    \/ EpochStarted
    \/ TrainStep
    \/ EpochCompleted
    \/ EvaluationStarted
    \/ EvaluationStep
    \/ LogResults
    \/ CheckpointHandler
    \/ HandlersDone
    \/ RunCompleted


(***************************************************************************)
(* The metric output transforms (training.py:388-488).                     *)
(*                                                                         *)
(* A tensor of shape (N, 2) is a sequence of N rows of two entries.  A     *)
(* real number is a fraction <<numerator, denominator>>.  Logarithms are   *)
(* taken to base 2, so that exp of the log-probability <<-k, 1>> is the    *)
(* probability <<1, 2^k>>: a conversion, not the identity.                 *)
(***************************************************************************)
LogProbs == { <<0 - k, 1>> : k \in 0..MaxNegLog }
Labels == {0, 1}

\* torch.exp of one entry (a log-probability), and of a tensor of shape (N, 2)
Exp(x) == <<1, 2 ^ (0 - x[1])>>
TorchExp(t) == [i \in 1..Len(t) |-> [j \in 1..Len(t[i]) |-> Exp(t[i][j])]]

\* t[:, -1]
LastColumn(t) == [i \in 1..Len(t) |-> t[i][Len(t[i])]]

\* What the evaluator hands to the metrics for a batch: the record of
\* _evaluation_step_pose_and_affinity (training.py:332-339), or the pair
\* (y_pred, y) of create_supervised_evaluator, y_pred = model(x) being the
\* log-probabilities the NLLLoss is trained on (training.py:296, 383).
EvaluatorOutput(affinity, pose_log, labels) ==
    IF affinity
    THEN [ pose_log |-> pose_log,
           affinities_pred |-> [i \in 1..Len(labels) |-> <<0, 1>>],
           labels |-> labels,
           affinities |-> [i \in 1..Len(labels) |-> <<0, 1>>] ]
    ELSE <<pose_log, labels>>

_output_transform_identity(args) == args

_output_transform_select_pose(output) == <<TorchExp(output.pose_log), output.labels>>

_output_transform_select_affinity(output) == <<output.affinities_pred, output.affinities>>

_output_transform_ROC(output, affinity) ==
    LET pl == IF affinity THEN _output_transform_select_pose(output) ELSE output
    IN  <<LastColumn(pl[1]), pl[2]>>

Batches ==
    UNION { [ pose_log : [1..n -> [1..2 -> LogProbs]], labels : [1..n -> Labels] ] :
            n \in 1..MaxSamples }

RocOff == o_pc = "off" /\ o_affinity = FALSE /\ o_output = <<>> /\ o_result = <<>>

RocStart ==
    /\ o_pc = "start"
    /\ o_affinity \in BOOLEAN
    /\ \E b \in Batches : o_output = EvaluatorOutput(o_affinity, b.pose_log, b.labels)
    /\ o_result = <<>>

\* The roc_auc metric applies its output_transform (training.py:527-532).
ApplyROC ==
    /\ o_pc = "start"
    /\ o_result' = _output_transform_ROC(o_output, o_affinity)
    /\ o_pc' = "done"
    /\ UNCHANGED <<o_affinity, o_output, r_vars, l_vars, t_vars>>

NextROC == ApplyROC

InitRename == RenameStart /\ LoadOff /\ TrainOff /\ RocOff
InitLoad == LoadStart /\ RenameOff /\ TrainOff /\ RocOff
InitTrain == TrainStart /\ RenameOff /\ LoadOff /\ RocOff
InitROC == RocStart /\ RenameOff /\ LoadOff /\ TrainOff

\* The program is used for one of: renaming a key, loading a model, training,
\* transforming an evaluator output.
Init == InitRename \/ InitLoad \/ InitTrain \/ InitROC
Next == NextRename \/ NextLoad \/ NextTrain \/ NextROC
Spec == Init /\ [][Next]_vars

SpecROC == InitROC /\ [][NextROC]_vars

SpecLoad == InitLoad /\ [][NextLoad]_vars
SpecTrain == InitTrain /\ [][NextTrain]_vars
\* Every step returns: the single thread of control goes on while it can.
FairSpecTrain == SpecTrain /\ WF_vars(NextTrain)

SpecRename == InitRename /\ [][NextRename]_vars

(***************************************************************************)
(* Claims about _rename.                                                   *)
(***************************************************************************)
\* The rule of _rename's documentation that a key matches first, 6 for none.
FirstRule(k) ==
    IF Contains(k, S_conv) THEN 1
    ELSE IF Contains(k, S_output_fc \o S_dot) THEN 2
    ELSE IF Contains(k, S_output_fc_aff \o S_dot) THEN 3
    ELSE IF Contains(k, S_pose_output) THEN 4
    ELSE IF Contains(k, S_affinity_output) THEN 5
    ELSE 6

Renamed == r_pc \in {"once", "twice"}

\* C1: for every key, _rename returns the result of the first matching rule
\* (conv -> "features." + key; "output_fc." -> replace "output_fc" by
\* "pose.pose_output"; "output_fc_aff." -> replace "output_fc_aff" by
\* "affinity.affinity_output"; "pose_output" -> "pose." + key;
\* "affinity_output" -> "affinity." + key), and for a key matching none of the
\* five it raises the unknown-layer error and returns no key.
C1_RenameFirstMatch ==
    Renamed =>
        /\ FirstRule(r_key) = 1 => r_out = Return(S_features \o S_dot \o r_key)
        /\ FirstRule(r_key) = 2 =>
              /\ r_out.raised = ""
              /\ r_out.value = Replace(r_key, S_output_fc, S_pose \o S_dot \o S_pose_output)
        /\ FirstRule(r_key) = 3 =>
              /\ r_out.raised = ""
              /\ r_out.value =
                    Replace(r_key, S_output_fc_aff, S_affinity \o S_dot \o S_affinity_output)
        /\ FirstRule(r_key) = 4 => r_out = Return(S_pose \o S_dot \o r_key)
        /\ FirstRule(r_key) = 5 => r_out = Return(S_affinity \o S_dot \o r_key)
        /\ FirstRule(r_key) = 6 => r_out = Raise("RuntimeError: Unknown layer name")
        /\ r_key = S_output_fc \o S_dot \o S_w =>
              r_out.value = S_pose \o S_dot \o S_pose_output \o S_dot \o S_w
        /\ r_key = S_output_fc_aff \o S_dot \o S_w =>
              r_out.value = S_affinity \o S_dot \o S_affinity_output \o S_dot \o S_w

\* C1 witness: a key matched by rule 1 and by rule 4 got rule 1's result.
C1_Witness ==
    /\ Renamed
    /\ r_key = S_pose_output \o S_conv \o S_dot \o S_w
    /\ r_out.value = S_features \o S_dot \o r_key

\* C2 as stated: a key already in the pose or affinity namespace is returned
\* unchanged, and renaming a rule-4 or rule-5 key twice equals renaming it once.
C2_RenameIdempotent ==
    /\ ( /\ Renamed
         /\ FirstRule(r_key) \in {4, 5}
         /\ \/ Contains(r_key, S_pose \o S_dot \o S_pose_output)
            \/ Contains(r_key, S_affinity \o S_dot \o S_affinity_output) )
       => r_out = Return(r_key)
    /\ (r_pc = "twice" /\ FirstRule(r_key) \in {4, 5}) => r_out2 = r_out

\* C2 amended: a key first matched by rule 4 (rule 5) always gets "pose."
\* ("affinity.") prepended, also when it already carries that prefix, so the
\* result differs from the key and a second renaming prepends the prefix again.
C2_RenamePrependsAgain ==
    /\ (Renamed /\ FirstRule(r_key) = 4) =>
          /\ r_out = Return(S_pose \o S_dot \o r_key)
          /\ r_out.value # r_key
          /\ r_pc = "twice" =>
                /\ r_out2 = Return(S_pose \o S_dot \o S_pose \o S_dot \o r_key)
                /\ r_out2 # r_out
    /\ (Renamed /\ FirstRule(r_key) = 5) =>
          /\ r_out = Return(S_affinity \o S_dot \o r_key)
          /\ r_out.value # r_key
          /\ r_pc = "twice" =>
                /\ r_out2 = Return(S_affinity \o S_dot \o S_affinity \o S_dot \o r_key)
                /\ r_out2 # r_out

\* C2 witness: "pose.pose_output.w" renamed twice.
C2_Witness ==
    /\ r_pc = "twice"
    /\ r_key = S_pose \o S_dot \o S_pose_output \o S_dot \o S_w
    /\ r_out2.value = S_pose \o S_dot \o S_pose \o S_dot \o r_key

(***************************************************************************)
(* Claims about the weight loader.                                         *)
(***************************************************************************)
HasUnknownKey(c) == \E i \in 1..Len(c) : FirstRule(c[i]) = 6

UnknownKeyError == "RuntimeError: Unknown layer name"

\* C3 as stated: a checkpoint holding a key no rule matches makes the load
\* fail with the unknown-key error; load_state_dict is not reached, nothing is
\* installed and no model is returned.
C3_UnknownKeyError ==
    HasUnknownKey(l_ckpt) =>
        /\ l_pc \notin {"install", "loaded", "returned"}
        /\ l_model.state = <<>>
        /\ l_result = NoModel
        /\ l_pc = "raised" => l_error = UnknownKeyError

SelectsModel(weights_file) ==
    Contains(weights_file, S_default2017) \/ Contains(weights_file, S_default2018)

\* C3 amended: with such a checkpoint load_state_dict is never reached, nothing
\* is installed and no model is returned; the error is the unknown-key error
\* when the path selects a model class (default2017, default2018), and the
\* NotImplemented or unknown-model error, raised before the file is read,
\* otherwise.
C3_UnknownKeyNeverInstalled ==
    HasUnknownKey(l_ckpt) =>
        /\ l_pc \notin {"install", "loaded", "returned"}
        /\ l_model.state = <<>>
        /\ l_result = NoModel
        /\ l_pc = "raised" =>
              IF SelectsModel(l_file)
              THEN l_error = UnknownKeyError
              ELSE l_error \in {"NotImplementedError", "ValueError: Unknown model name"}

\* C3 witness: the unknown key is the last of three, the two before it were
\* renamed, and the load ended with the unknown-key error.
C3_Witness ==
    /\ l_pc = "raised"
    /\ l_error = UnknownKeyError
    /\ Len(l_ckpt) = 3
    /\ l_i = 3
    /\ FirstRule(l_ckpt[3]) = 6
    /\ Len(l_renamed) = 2
    /\ l_result = NoModel

\* C4: a model name of the dense family ends in NotImplementedError, a name of
\* no known generation in the unknown-model ValueError, and a default2017 or
\* default2018 name gets the model class of its own generation.
C4_OutcomeOfDeclaredGeneration ==
    l_pc \notin {"call", "select"} =>
        /\ Contains(l_name, S_dense) =>
              l_pc = "raised" /\ l_error = "NotImplementedError"
        /\ ( /\ ~Contains(l_name, S_dense)
             /\ ~Contains(l_name, S_default2017)
             /\ ~Contains(l_name, S_default2018) ) =>
              l_pc = "raised" /\ l_error = "ValueError: Unknown model name"
        /\ Contains(l_name, S_default2017) => l_model.class = "Default2017Affinity"
        /\ Contains(l_name, S_default2018) => l_model.class = "Default2018Affinity"

HasRule(c, rules) == \E i \in 1..Len(c) : FirstRule(c[i]) \in rules

\* A checkpoint with a pose head and an affinity head / with a pose head only.
DualTask(c) == HasRule(c, {2, 4}) /\ HasRule(c, {3, 5}) /\ ~HasUnknownKey(c)
PoseOnly(c) == HasRule(c, {2, 4}) /\ ~HasRule(c, {3, 5}) /\ ~HasUnknownKey(c)

\* C5 as stated: a pose-only legacy checkpoint yields a model whose forward
\* returns a single tensor, a dual-task checkpoint one that returns a 2-tuple.
C5_VariantFromCheckpoint ==
    (l_pc \in {"returned", "raised"} /\ SelectsModel(l_file)) =>
        /\ PoseOnly(l_ckpt) => (l_pc = "returned" /\ ForwardArity(l_result) = 1)
        /\ (DualTask(l_ckpt) /\ l_pc = "returned") => ForwardArity(l_result) = 2

\* C5 amended: the model class comes from the file's path alone, both classes
\* are dual-task, and so every constructed and every returned model has a
\* forward that yields a 2-tuple, whatever heads the checkpoint holds.
C5_AlwaysDualTask ==
    /\ l_model # NoModel =>
          /\ ForwardArity(l_model) = 2
          /\ l_model.class =
                IF Contains(l_file, S_default2017)
                THEN "Default2017Affinity" ELSE "Default2018Affinity"
    /\ l_pc = "returned" =>
          /\ l_result = l_model
          /\ ForwardArity(l_result) = 2
          /\ l_result.state = l_renamed

\* C5 witness: a dual-task checkpoint was loaded and the model returned.
C5_Witness ==
    /\ l_pc = "returned"
    /\ DualTask(l_ckpt)
    /\ ForwardArity(l_result) = 2
    /\ Len(l_result.state) = Len(l_ckpt)

(***************************************************************************)
(* Claims about the training run.                                          *)
(***************************************************************************)
Min(a, b) == IF a < b THEN a ELSE b

\* C6: with num_checkpoints = N, storage holds exactly min(N, written)
\* checkpoints, they are the most recently written ones, each is tagged with
\* the epoch at which it was written and holds the state of the end of that
\* epoch, and the older ones were removed in the order they were created.
C6_CheckpointRetention ==
    t_pc # "off" =>
        LET n == Min(t_args.num_checkpoints, Len(t_written))
            w == Len(t_written)
        IN  /\ Len(t_saved) = n
            /\ t_saved = SubSeq(t_written, w - n + 1, w)
            /\ t_removed = SubSeq(t_written, 1, w - n)
            /\ \A i \in 1..w :
                  /\ t_written[i].tag = i * t_args.checkpoint_every
                  /\ t_written[i].tag <= t_epoch
                  /\ t_written[i].model = t_written[i].tag * t_data.train_batches

\* C6 witness: three checkpoints written, two kept, the first removed.
C6_Witness ==
    /\ t_pc = "Completed"
    /\ t_args.num_checkpoints = 2
    /\ Len(t_written) = 3
    /\ Len(t_saved) = 2
    /\ t_saved[2].tag = 3
    /\ Len(t_removed) = 1

Reports(title, e) ==
    Cardinality({ i \in 1..Len(t_log) : t_log[i].title = title /\ t_log[i].epoch = e })

\* The handlers of epoch e have all run.
EpochClosed(e) ==
    e < t_epoch \/ (e = t_epoch /\ t_pc \in {"EpochBoundary", "Completed"})

\* C7: a Train report is logged at the end of epoch e exactly when e is a
\* multiple of test_every (1 <= e <= iterations), never mid-epoch; a Test
\* report at the same epochs iff a test file is configured; a completed run
\* without a test file has logged iterations \div test_every reports.
C7_ReportSchedule ==
    t_pc # "off" =>
        /\ \A i \in 1..Len(t_log) :
              /\ t_log[i].epoch \in 1..t_args.iterations
              /\ t_log[i].epoch % t_args.test_every = 0
              /\ t_log[i].iteration = t_log[i].epoch * t_data.train_batches
              /\ t_log[i].title \in {"Train", "Test"}
              /\ t_log[i].title = "Test" => t_args.testfile
        /\ t_pc = "Running" => \A i \in 1..Len(t_log) : t_log[i].epoch < t_epoch
        /\ \A e \in 1..t_args.iterations :
              /\ Reports("Train", e) <= 1
              /\ Reports("Test", e) <= 1
              /\ EpochClosed(e) =>
                    /\ Reports("Train", e) = IF e % t_args.test_every = 0 THEN 1 ELSE 0
                    /\ Reports("Test", e) =
                          IF t_args.testfile /\ e % t_args.test_every = 0 THEN 1 ELSE 0
        /\ (t_pc = "Completed" /\ ~t_args.testfile) =>
              Len(t_log) = t_args.iterations \div t_args.test_every

\* C7 witness: test_every = 1, iterations = 2, no test file: two reports.
C7_Witness ==
    /\ t_pc = "Completed"
    /\ ~t_args.testfile
    /\ t_args.test_every = 1
    /\ t_args.iterations = 2
    /\ Len(t_log) = 2
    /\ t_log[2].epoch = 2

\* C8: once the trainer runs, and every step returns, the run reaches
\* Completed, and it is Completed only after exactly `iterations` epochs of
\* training, whatever the losses were.
C8_CompletesAfterIterations ==
    /\ (t_pc = "EpochBoundary") ~> (t_pc = "Completed")
    /\ [](t_pc = "Completed" =>
            /\ t_epoch = t_args.iterations
            /\ t_iteration = t_args.iterations * t_data.train_batches)

\* C8 witness: a run of several epochs completed after a low last loss.
C8_Witness ==
    /\ t_pc = "Completed"
    /\ t_args.iterations > 1
    /\ t_epoch = t_args.iterations
    /\ t_loss = "low"

\* C10: with a test file whose loader reports other dims than the train
\* loader, setup fails before model and optimizer exist and before any
\* training step; with equal dims, or without a test file, it does not fail.
C10_DimsMismatchFailsSetup ==
    t_pc # "off" =>
        LET mismatch == t_args.testfile /\ t_data.test_dims # t_data.train_dims IN
        /\ (mismatch /\ t_pc # "Idle") => (t_pc = "Failed" /\ t_error = "AssertionError")
        /\ mismatch =>
              /\ ~t_model.constructed
              /\ ~t_optimizer.constructed
              /\ t_iteration = 0
              /\ t_epoch = 0
        /\ ~mismatch => (t_pc # "Failed" /\ t_error = "")

\* C10 witness: setup failed on a dims mismatch, nothing constructed.
C10_Witness ==
    /\ t_pc = "Failed"
    /\ t_args.testfile
    /\ t_data.test_dims # t_data.train_dims
    /\ ~t_model.constructed
    /\ t_iteration = 0

(***************************************************************************)
(* Claims about the metric output transforms.                              *)
(***************************************************************************)
\* The pose log-probabilities and labels inside the evaluator's output.
PoseLogOf(output, affinity) == IF affinity THEN output.pose_log ELSE output[1]
LabelsOf(output, affinity) == IF affinity THEN output.labels ELSE output[2]

\* C9: in single-task and in dual-task mode the ROC transform returns
\* (exp(pose_log_probs)[:, -1], labels).
C9_RocPositiveProbability ==
    o_pc = "done" =>
        /\ o_result[1] = LastColumn(TorchExp(PoseLogOf(o_output, o_affinity)))
        /\ o_result[2] = LabelsOf(o_output, o_affinity)

(***************************************************************************)
(* Claims about evaluation passes and the order of the epoch's handlers.   *)
(***************************************************************************)
Evaluating == t_pc \in {"EvaluatingTrain", "EvaluatingTest"}

\* The parameter version after every training step of epoch e.
VersionAfter(e) == e * t_data.train_batches

\* C11: during an evaluation pass no training step runs and neither model
\* parameters nor optimizer state change: the pass of epoch e starts after the
\* last training step of epoch e, ends before the first of epoch e + 1, and
\* all its batches are evaluated against the same parameters.
C11_EvaluationOnFrozenParameters ==
    t_pc # "off" =>
        /\ Evaluating =>
              /\ t_batch = t_data.train_batches
              /\ t_iteration = VersionAfter(t_epoch)
              /\ t_model.version = VersionAfter(t_epoch)
              /\ t_optimizer.version = VersionAfter(t_epoch)
              /\ \A i \in 1..Len(t_eval.seen) :
                    t_eval.seen[i].version = t_model.version
        /\ \A i \in 1..Len(t_log) :
              /\ t_log[i].iteration = VersionAfter(t_log[i].epoch)
              /\ \A j \in 1..Len(t_log[i].metrics) :
                    t_log[i].metrics[j].version = VersionAfter(t_log[i].epoch)
        /\ t_pc = "Running" =>
              /\ t_model.version = VersionAfter(t_epoch - 1) + t_batch
              /\ t_optimizer.version = t_model.version

\* C11 witness: a Test pass of two batches at epoch 2, both on one version.
C11_Witness ==
    /\ t_pc = "EvaluatingTest"
    /\ t_epoch = 2
    /\ Len(t_eval.seen) = 2
    /\ t_eval.seen[1].version = t_eval.seen[2].version
    /\ t_model.version = t_eval.seen[2].version

\* The batches of one pass over a split at epoch e, as the metrics see them.
PassOf(title, e) ==
    [ b \in 1..(IF title = "Train" THEN t_data.train_batches ELSE t_data.test_batches) |->
        [split |-> title, batch |-> b, version |-> VersionAfter(e)] ]

\* C12: the metrics are reset when an evaluation pass starts, so every report
\* is computed from the batches of its own pass alone: a Test report holds
\* nothing of the Train pass run just before it, and no report holds anything
\* of an earlier epoch.
C12_ReportsOfOwnPass ==
    t_pc # "off" =>
        /\ \A i \in 1..Len(t_log) :
              t_log[i].metrics = PassOf(t_log[i].title, t_log[i].epoch)
        /\ Evaluating =>
              /\ Len(t_eval.seen) = t_eval.batches
              /\ t_eval.seen = SubSeq(PassOf(t_eval.split, t_epoch), 1, t_eval.batches)

\* C12 witness: a Test report of the second evaluated epoch, logged right
\* after a Train report, holding its own two batches only.
C12_Witness ==
    /\ Len(t_log) = 4
    /\ t_log[3].title = "Train"
    /\ t_log[4].title = "Test"
    /\ Len(t_log[4].metrics) = 2
    /\ \A j \in 1..2 : t_log[4].metrics[j].split = "Test"

\* Position of the report with this title and epoch in the log, 0 for none.
ReportAt(title, e) ==
    IF \E i \in 1..Len(t_log) : t_log[i].title = title /\ t_log[i].epoch = e
    THEN CHOOSE i \in 1..Len(t_log) : t_log[i].title = title /\ t_log[i].epoch = e
    ELSE 0

CheckpointTagged(e) == \E i \in 1..Len(t_written) : t_written[i].tag = e

ReportsDue(e) == e % t_args.test_every = 0
CheckpointDue(e) == e % t_args.checkpoint_every = 0

\* C14: the side effects due at one epoch boundary run one at a time in the
\* order of registration: Train evaluation and report, Test evaluation and
\* report when a test file is given, then the checkpoint; all are over before
\* the next epoch's first training step, and the checkpoint tagged e holds the
\* parameters the reports of epoch e were computed on.
C14_BoundaryEffectsInOrder ==
    t_pc \notin {"off", "Idle", "LoadersReady", "Failed"} =>
        /\ t_pc = "EvaluatingTrain" =>
              /\ Head(t_queue) = "log_training_results"
              /\ ReportAt("Train", t_epoch) = 0
              /\ ReportAt("Test", t_epoch) = 0
              /\ ~CheckpointTagged(t_epoch)
        /\ t_pc = "EvaluatingTest" =>
              /\ Head(t_queue) = "log_test_results"
              /\ ReportAt("Train", t_epoch) # 0
              /\ ReportAt("Test", t_epoch) = 0
              /\ ~CheckpointTagged(t_epoch)
        /\ \A e \in 1..t_epoch :
              /\ ReportAt("Test", e) # 0 =>
                    /\ ReportAt("Train", e) # 0
                    /\ ReportAt("Train", e) < ReportAt("Test", e)
              /\ CheckpointTagged(e) =>
                    /\ ReportsDue(e) => ReportAt("Train", e) # 0
                    /\ (ReportsDue(e) /\ t_args.testfile) => ReportAt("Test", e) # 0
              /\ \A i \in 1..Len(t_written), j \in 1..Len(t_log) :
                    (t_written[i].tag = e /\ t_log[j].epoch = e) =>
                        /\ t_written[i].model = t_log[j].iteration
                        /\ \A k \in 1..Len(t_log[j].metrics) :
                              t_log[j].metrics[k].version = t_written[i].model
        /\ \A e \in 1..t_args.iterations :
              EpochClosed(e) =>
                 /\ ReportsDue(e) => ReportAt("Train", e) # 0
                 /\ (ReportsDue(e) /\ t_args.testfile) => ReportAt("Test", e) # 0
                 /\ CheckpointDue(e) => CheckpointTagged(e)
        /\ t_pc \in {"Running", "EpochBoundary", "Completed"} => t_queue = <<>>
        /\ t_pc = "Running" =>
              /\ \A j \in 1..Len(t_log) : t_log[j].epoch < t_epoch
              /\ \A i \in 1..Len(t_written) : t_written[i].tag < t_epoch

\* C14 witness: at epoch 2 the Train report, the Test report and the
\* checkpoint were all due, and all three are done with the queue empty.
C14_Witness ==
    /\ t_pc = "EpochCompleted"
    /\ t_queue = <<>>
    /\ t_epoch = 2
    /\ t_args.testfile
    /\ ReportAt("Train", 2) # 0
    /\ ReportAt("Test", 2) = ReportAt("Train", 2) + 1
    /\ CheckpointTagged(2)

(***************************************************************************)
(* Claims about what load_gnina_model builds and installs.                 *)
(***************************************************************************)
\* C13: a load that does not fail installs one entry per key of the file,
\* each under the renamed key and holding the tensor stored under the
\* original key; two keys renamed to the same key never collapse silently.
C13_OneEntryPerOriginalKey ==
    l_pc \in {"install", "loaded", "returned"} =>
        /\ Len(l_renamed) = Len(l_ckpt)
        /\ \A i \in 1..Len(l_ckpt) :
              \E j \in 1..Len(l_renamed) :
                 /\ l_renamed[j].key = _rename(l_ckpt[i]).value
                 /\ l_renamed[j].value = i

\* C15: the model is built on 32 channels for default2017 and 28 for
\* default2018, over a cubic grid of round(dimension / resolution) + 1 points
\* a side.
C15_DocumentedInputDims ==
    l_model # NoModel =>
        LET num_voxels == NumVoxels(l_grid.dimension, l_grid.resolution)
            channels == IF l_model.class = "Default2017Affinity" THEN 32 ELSE 28
        IN  /\ l_grid.num_voxels = num_voxels
            /\ InputDims(l_model, l_grid.num_voxels)
                  = <<channels, num_voxels, num_voxels, num_voxels>>

====
